---- MODULE Spec2Model ----
(***************************************************************************)
(* pathranger (src/src/main.rs): the visit store (table directories), the  *)
(* tag registry (table tags) and the commands that read and write them.    *)
(*                                                                         *)
(* Strings are sequences of one-character strings, so that tilde           *)
(* expansion and the operating system's path resolution are computed on    *)
(* the characters.  A table is the sequence of its rows in rowid order.    *)
(* A timestamp text (RFC 3339 with offset) is the pair of its local        *)
(* date-time field and its offset field.                                   *)
(***************************************************************************)
EXTENDS Integers, Sequences, FiniteSets, TLC

(* ---------------------------------------------------------------- bounds *)
MaxVisits == 3      \* total of visit_count over the table directories
MaxTime == 1        \* last instant of the wall clock
MaxCount == 2       \* largest --count argument

(* --------------------------------------------------------------- strings *)
Home == <<"/", "h">>                       \* dirs::home_dir()
PathAbs == <<"/", "h", "/", "a">>          \* /h/a
PathTilde == <<"~", "/", "a">>             \* ~/a
PathSlash == <<"/", "h", "/", "a", "/">>   \* /h/a/
PathRel == <<"a">>                         \* a   (relative)
PathB == <<"/", "b">>                      \* /b
PathGone == <<"/", "x">>                   \* /x  (never a directory)

InputPaths == {PathAbs, PathTilde, PathSlash, PathRel, PathB, PathGone}
TagW == <<"w">>
TagV == <<"v">>
TagNames == {TagW, TagV}
Counts == 0..MaxCount                      \* --count arguments
Offsets == {0, 1}                          \* local UTC offsets, in hours

(* ------------------------------------------------------------ filesystem *)
\* A directory is the sequence of its component names from the root.
DirRoot == <<>>
DirHome == << <<"h">> >>
DirA == << <<"h">>, <<"a">> >>
DirB == << <<"b">> >>
AllDirs == {DirRoot, DirHome, DirA, DirB}
Removable == {DirB}
WorkDirs == {DirHome, DirB}                \* directories a shell sits in

RECURSIVE Components(_, _, _)
Components(p, cur, acc) ==
    IF p = <<>> THEN (IF cur = <<>> THEN acc ELSE Append(acc, cur))
    ELSE IF Head(p) = "/"
         THEN Components(Tail(p), <<>>, IF cur = <<>> THEN acc ELSE Append(acc, cur))
         ELSE Components(Tail(p), Append(cur, Head(p)), acc)

\* The directory a path string denotes for a process whose working
\* directory is cwd: empty components (repeated or trailing slashes) drop out.
Resolve(p, cwd) ==
    IF p[1] = "/" THEN Components(p, <<>>, <<>>)
    ELSE cwd \o Components(p, <<>>, <<>>)

\* Path::new(p).is_dir() with the lookup on disk left out.
is_dir_Lax(p, cwd, fs) == p # <<>>

\* Path::new(p).is_dir()
is_dir(p, cwd, fs) == p # <<>> /\ Resolve(p, cwd) \in fs

RECURSIVE DirString(_)
\* std::env::current_dir().to_string_lossy(): the absolute path of a directory
DirString(d) ==
    IF d = <<>> THEN <<"/">>
    ELSE IF Len(d) = 1 THEN <<"/">> \o d[1]
    ELSE DirString(SubSeq(d, 1, Len(d) - 1)) \o <<"/">> \o d[Len(d)]

\* shellexpand::tilde: a leading ~ that is the whole string or is followed by
\* a slash is replaced by the home directory; anything else is passed through.
tilde(p) ==
    IF p # <<>> /\ p[1] = "~" /\ (Len(p) = 1 \/ p[2] = "/")
    THEN Home \o Tail(p)
    ELSE p

(* ------------------------------------------------------------ timestamps *)
\* Local::now(): the instant of the wall clock with the local offset.
LocalNow(clock, zone) == [utc |-> clock, off |-> zone]

\* DateTime::to_rfc3339: the local date-time field followed by the offset field.
to_rfc3339(dt) == [local |-> dt.utc + dt.off, off |-> dt.off]

\* DateTime::parse_from_rfc3339: the instant a timestamp text denotes.
parse_from_rfc3339(txt) == [utc |-> txt.local - txt.off, off |-> txt.off]

NoTime == [local |-> -1, off |-> 0]

(* ----------------------------------------------------------------- state *)
VARIABLES
    directories,   \* table directories: rows [path, visit_count, last_visited]
    tags,          \* table tags: rows [name, path, created_at]
    disk,          \* the directories that exist on disk
    now,           \* wall clock instant
    tz,            \* local UTC offset
    out,           \* what the last finished command reported
    visited,       \* history: per storage key, visits recorded and the last one's time
    names,         \* history: per directory, the storage keys its visits went to
    pinned,        \* history: per tag name, the target of its last mark since the last untag
    procs,         \* concurrent invocations: position and locals of each process
    other          \* table directories of a second store

vars == <<directories, tags, disk, now, tz, out, visited, names, pinned, procs, other>>

Range(s) == {s[i] : i \in DOMAIN s}

StoredKeys == {tilde(p) : p \in InputPaths} \cup {DirString(d) : d \in WorkDirs}

NoOut == [cmd |-> "none", exit |-> 0, err |-> "none", stdout |-> <<>>, rows |-> 0]

NoPin == [set |-> FALSE, path |-> <<>>, at |-> NoTime]
Procs == {1, 2}
Idle == [pc |-> "idle", cmd |-> "none", tag |-> <<>>, path |-> <<>>, cwd |-> <<>>,
         ts |-> NoTime, exists |-> FALSE, exit |-> 0, err |-> "none"]

Init ==
    /\ directories = <<>>
    /\ tags = <<>>
    /\ disk = AllDirs
    /\ now = 0
    /\ tz = 0
    /\ out = NoOut
    /\ visited = [k \in StoredKeys |-> [n |-> 0, last |-> NoTime]]
    /\ names = [d \in AllDirs |-> {}]
    /\ pinned = [t \in TagNames |-> NoPin]
    /\ procs = [p \in Procs |-> Idle]
    /\ other = <<>>

(* ------------------------------------------------------- table directories *)
RowsOf(t, path) == {i \in DOMAIN t : t[i].path = path}

TotalVisits(t) ==
    LET RECURSIVE Sum(_)
        Sum(i) == IF i = 0 THEN 0 ELSE t[i].visit_count + Sum(i - 1)
    IN Sum(Len(t))

\* The UPDATE with the assignment to last_visited left out.
UpdateVisit_KeepTime(t, path, ts) ==
    [table |-> [i \in DOMAIN t |->
                   IF t[i].path = path THEN [t[i] EXCEPT !.visit_count = @ + 1] ELSE t[i]],
     rows_affected |-> Cardinality(RowsOf(t, path))]

\* UPDATE directories SET visit_count = visit_count + 1, last_visited = ?1 WHERE path = ?2
UpdateVisit(t, path, ts) ==
    [table |-> [i \in DOMAIN t |->
                   IF t[i].path = path
                   THEN [t[i] EXCEPT !.visit_count = @ + 1, !.last_visited = ts]
                   ELSE t[i]],
     rows_affected |-> Cardinality(RowsOf(t, path))]

\* INSERT INTO directories (path, visit_count, last_visited) VALUES (?1, 1, ?2)
\* path is UNIQUE: the statement fails when a row with that path exists.
InsertVisit(t, path, ts) ==
    IF RowsOf(t, path) # {}
    THEN [table |-> t, err |-> "UNIQUE directories.path"]
    ELSE [table |-> Append(t, [path |-> path, visit_count |-> 1, last_visited |-> ts]),
          err |-> "none"]

\* record_visit returning before its statements in every case.
record_visit_Skip(t, fs, cwd, path, ts) ==
    [table |-> t, key |-> tilde(path), recorded |-> FALSE, err |-> "none", diag |-> "nodir"]

\* record_visit with the directory check left out.
record_visit_NoCheck(t, fs, cwd, path, ts) ==
    LET expanded_path == tilde(path)
        upd == UpdateVisit(t, expanded_path, ts)
        ins == InsertVisit(upd.table, expanded_path, ts)
    IN  IF upd.rows_affected = 0
        THEN [table |-> ins.table, key |-> expanded_path,
              recorded |-> ins.err = "none", err |-> ins.err, diag |-> "none"]
        ELSE [table |-> upd.table, key |-> expanded_path, recorded |-> TRUE,
              err |-> "none", diag |-> "none"]

\* record_visit run to completion by one process: the resulting table, whether
\* a visit was recorded, and the error it returns.
record_visit(t, fs, cwd, path, ts) ==
    LET expanded_path == tilde(path)
        upd == UpdateVisit(t, expanded_path, ts)
        ins == InsertVisit(upd.table, expanded_path, ts)
    IN  IF ~is_dir(expanded_path, cwd, fs)
        THEN [table |-> t, key |-> expanded_path, recorded |-> FALSE, err |-> "none",
              diag |-> "nodir"]
        ELSE IF upd.rows_affected = 0
        THEN [table |-> ins.table, key |-> expanded_path,
              recorded |-> ins.err = "none", err |-> ins.err, diag |-> "none"]
        ELSE [table |-> upd.table, key |-> expanded_path, recorded |-> TRUE,
              err |-> "none", diag |-> "none"]

\* History: a visit was reported under path by a process sitting in cwd, and
\* the path names a directory that exists.
NoteVisit(path, cwd, ts) ==
    IF Resolve(tilde(path), cwd) \in disk
    THEN /\ visited' = [visited EXCEPT ![tilde(path)] = [n |-> @.n + 1, last |-> ts]]
         /\ names' = [names EXCEPT ![Resolve(tilde(path), cwd)] = @ \cup {tilde(path)}]
    ELSE UNCHANGED <<visited, names>>

(* -------------------------------------------------------------- table tags *)
TagRows(t, name) == {i \in DOMAIN t : t[i].name = name}

\* SELECT id FROM tags WHERE name = ?1   (stmt.exists)
TagExists(t, name) == TagRows(t, name) # {}

\* The UPDATE with the assignment to path left out.
UpdateTag_KeepPath(t, name, path, ts) ==
    [i \in DOMAIN t |-> IF t[i].name = name THEN [t[i] EXCEPT !.created_at = ts] ELSE t[i]]

\* UPDATE tags SET path = ?1, created_at = ?2 WHERE name = ?3
UpdateTag(t, name, path, ts) ==
    [i \in DOMAIN t |->
        IF t[i].name = name THEN [t[i] EXCEPT !.path = path, !.created_at = ts] ELSE t[i]]

\* INSERT INTO tags (name, path, created_at) VALUES (?1, ?2, ?3)
\* name is UNIQUE: the statement fails when a row with that name exists.
InsertTag(t, name, path, ts) ==
    IF TagRows(t, name) # {}
    THEN [table |-> t, err |-> "UNIQUE tags.name"]
    ELSE [table |-> Append(t, [name |-> name, path |-> path, created_at |-> ts]),
          err |-> "none"]

\* The DELETE with the WHERE clause left out.
DeleteTag_All(t, name) == [table |-> <<>>, rows_affected |-> Len(t)]

\* DELETE FROM tags WHERE name = ?1
DeleteTag(t, name) ==
    LET keep == {i \in DOMAIN t : t[i].name # name}
        Nth(k) == CHOOSE i \in keep : Cardinality({j \in keep : j < i}) = k - 1
    IN  [table |-> [k \in 1..Cardinality(keep) |-> t[Nth(k)]],
         rows_affected |-> Len(t) - Cardinality(keep)]

\* The SELECT with the WHERE clause left out.
TagQuery_First(t, name) ==
    IF t = <<>> THEN [found |-> FALSE, path |-> <<>>] ELSE [found |-> TRUE, path |-> t[1].path]

\* SELECT path FROM tags WHERE name = ?1   (query_row: the first row, or an error)
TagQuery(t, name) ==
    IF TagRows(t, name) = {} THEN [found |-> FALSE, path |-> <<>>]
    ELSE [found |-> TRUE,
          path |-> t[CHOOSE i \in TagRows(t, name) : \A j \in TagRows(t, name) : i <= j].path]

(* ------------------------------------------------------------------ order *)
\* Byte values of the characters in use, for the store's BINARY text order.
Code(c) ==
    CASE c = "/" -> 47 [] c = "a" -> 97 [] c = "b" -> 98 [] c = "h" -> 104
      [] c = "v" -> 118 [] c = "w" -> 119 [] c = "x" -> 120 [] c = "~" -> 126

RECURSIVE StrLess(_, _)
StrLess(a, b) ==
    IF b = <<>> THEN FALSE
    ELSE IF a = <<>> THEN TRUE
    ELSE IF Code(Head(a)) # Code(Head(b)) THEN Code(Head(a)) < Code(Head(b))
    ELSE StrLess(Tail(a), Tail(b))

\* The offset field of a timestamp text as bytes: "+hh:00" sorts before
\* "-hh:00", and among equal signs by the digits.
OffsetRank(o) == IF o >= 0 THEN o ELSE 100 - o

\* BINARY order of two timestamp texts of equal width.
TextLess(a, b) ==
    \/ a.local < b.local
    \/ a.local = b.local /\ OffsetRank(a.off) < OffsetRank(b.off)

\* The ORDER BY terms of the three listings: r1 sorts before r2.
SortsFirst(key, r1, r2) ==
    CASE key = "visit_count DESC" -> r1.visit_count > r2.visit_count
      [] key = "last_visited DESC" -> TextLess(r2.last_visited, r1.last_visited)
      [] key = "name" -> StrLess(r1.name, r2.name)

\* ORDER BY with one sort key: rows the key does not separate stay in the
\* order the scan delivers them (rowid order).
OrderBy(t, key) ==
    LET Before(i, j) ==
            SortsFirst(key, t[i], t[j]) \/ (~SortsFirst(key, t[j], t[i]) /\ i < j)
        Rank(i) == Cardinality({j \in DOMAIN t : Before(j, i)}) + 1
    IN  [k \in DOMAIN t |-> t[CHOOSE i \in DOMAIN t : Rank(i) = k]]

\* LIMIT ?1
Limit(s, n) == SubSeq(s, 1, IF n < Len(s) THEN n ELSE Len(s))

\* The row as query_map returns it: last_visited parsed and taken to the
\* local zone of the listing process.
ListedRow(r, zone) ==
    [path |-> r.path, visit_count |-> r.visit_count,
     last_visited |-> parse_from_rfc3339(r.last_visited).utc + zone]

\* The listing with the path as second sort key.
list_top_directories_TiesByPath(t, count, zone) ==
    LET Before(i, j) ==
            \/ t[i].visit_count > t[j].visit_count
            \/ t[i].visit_count = t[j].visit_count /\ StrLess(t[i].path, t[j].path)
        Rank(i) == Cardinality({j \in DOMAIN t : Before(j, i)}) + 1
        q == Limit([k \in DOMAIN t |-> t[CHOOSE i \in DOMAIN t : Rank(i) = k]], count)
    IN  [k \in DOMAIN q |-> ListedRow(q[k], zone)]

\* The listing with the sort key of list_recent_directories.
list_top_directories_ByRecent(t, count, zone) ==
    LET q == Limit(OrderBy(t, "last_visited DESC"), count)
    IN  [k \in DOMAIN q |-> ListedRow(q[k], zone)]

\* SELECT ... FROM directories ORDER BY visit_count DESC LIMIT ?1
list_top_directories(t, count, zone) ==
    LET q == Limit(OrderBy(t, "visit_count DESC"), count)
    IN  [k \in DOMAIN q |-> ListedRow(q[k], zone)]

\* SELECT ... FROM directories ORDER BY last_visited DESC LIMIT ?1
list_recent_directories(t, count, zone) ==
    LET q == Limit(OrderBy(t, "last_visited DESC"), count)
    IN  [k \in DOMAIN q |-> ListedRow(q[k], zone)]

\* SELECT name, path FROM tags ORDER BY name
list_tags(t) ==
    LET q == OrderBy(t, "name")
    IN  [k \in DOMAIN q |-> [name |-> q[k].name, path |-> q[k].path]]

(* -------------------------------------------------------------- commands *)
Stamp == to_rfc3339(LocalNow(now, tz))

\* What a finished command leaves behind: exit status, the message on
\* stderr (err), the lines on stdout and the statement's row count.
Finish(cmd, exit, err, stdout, rows) ==
    out' = [cmd |-> cmd, exit |-> exit, err |-> err, stdout |-> stdout, rows |-> rows]

\* The store file as a command finds it: both tables were created when the
\* first command ran.
Store == [has_directories |-> TRUE, directories |-> directories,
          has_tags |-> TRUE, tags |-> tags]

\* setup_database with DROP TABLE IF EXISTS before each CREATE TABLE.
setup_database_Recreate(db) ==
    [has_directories |-> TRUE, directories |-> <<>>, has_tags |-> TRUE, tags |-> <<>>]

\* setup_database: CREATE TABLE IF NOT EXISTS directories, then tags; a
\* table that exists is left alone, a missing one is created without rows.
setup_database(db) ==
    [has_directories |-> TRUE,
     directories |-> IF db.has_directories THEN db.directories ELSE <<>>,
     has_tags |-> TRUE,
     tags |-> IF db.has_tags THEN db.tags ELSE <<>>]

\* A command that runs no statement of its own after setup_database, or
\* only queries.
Quiet ==
    /\ directories' = setup_database(Store).directories
    /\ tags' = setup_database(Store).tags
    /\ UNCHANGED <<disk, now, tz, visited, names, pinned, procs, other>>

\* record_visit as the last call of a command, with the command's exit status.
Visit(cmd, path, cwd, stdout) ==
    LET r == record_visit(directories, disk, cwd, path, Stamp)
    IN  /\ r.recorded => TotalVisits(directories) < MaxVisits
        /\ directories' = r.table
        /\ NoteVisit(path, cwd, Stamp)
        /\ Finish(cmd, IF r.err = "none" THEN 0 ELSE 1,
                  IF r.err = "none" THEN r.diag ELSE r.err, stdout, 0)

\* pathranger record <path>
Record(path, cwd) ==
    /\ Visit("record", path, cwd, <<>>)
    /\ UNCHANGED <<tags, disk, now, tz, pinned, procs, other>>

\* pathranger add: add_current_directory
Add(cwd) ==
    IF cwd \notin disk
    THEN Finish("add", 1, "nocwd", <<>>, 0) /\ Quiet
    ELSE /\ Visit("add", DirString(cwd), cwd, <<"Added">>)
         /\ UNCHANGED <<tags, disk, now, tz, pinned, procs, other>>

NoPath == [some |-> FALSE, val |-> <<>>]
SomePath(p) == [some |-> TRUE, val |-> p]

\* mark_directory(conn, tag, path); pathranger mark <tag> passes no path.
Mark(tag, arg, cwd) ==
    IF ~arg.some /\ cwd \notin disk
    THEN Finish("mark", 1, "nocwd", <<>>, 0) /\ Quiet
    ELSE LET path == IF arg.some THEN tilde(arg.val) ELSE DirString(cwd)
             exists == TagExists(tags, tag)
             ins == InsertTag(tags, tag, path, Stamp)
         IN  IF ~is_dir(path, cwd, disk)
             THEN Finish("mark", 1, "nodir", <<>>, 0) /\ Quiet
             ELSE IF ~exists /\ ins.err # "none"
             THEN Finish("mark", 1, ins.err, <<>>, 0) /\ Quiet
             ELSE /\ tags' = IF exists THEN UpdateTag(tags, tag, path, Stamp) ELSE ins.table
                  /\ Visit("mark", path, cwd, << IF exists THEN "Updated" ELSE "Created" >>)
                  /\ pinned' = [pinned EXCEPT ![tag] = [set |-> TRUE, path |-> path, at |-> Stamp]]
                  /\ UNCHANGED <<disk, now, tz, procs, other>>

\* goto_tag without its call of record_visit.
Goto_NoVisit(tag, cwd) ==
    LET q == TagQuery(tags, tag)
    IN  /\ Finish("goto", IF q.found THEN 0 ELSE 1, IF q.found THEN "none" ELSE "notfound",
                  IF q.found THEN <<q.path>> ELSE <<>>, 0)
        /\ Quiet

\* pathranger goto <tag>: goto_tag
Goto(tag, cwd) ==
    LET q == TagQuery(tags, tag)
    IN  IF ~q.found
        THEN Finish("goto", 1, "notfound", <<>>, 0) /\ Quiet
        ELSE /\ Visit("goto", q.path, cwd, <<q.path>>)
             /\ UNCHANGED <<tags, disk, now, tz, pinned, procs, other>>

\* remove_tag deleting the visit history of the tagged path with the tag.
Untag_Purge(tag) ==
    LET d == DeleteTag(tags, tag)
        gone == {tags[i].path : i \in TagRows(tags, tag)}
    IN  /\ tags' = d.table
        /\ directories' = SelectSeq(directories, LAMBDA r : r.path \notin gone)
        /\ Finish("untag", 0, "none",
                  << IF d.rows_affected > 0 THEN "removed" ELSE "not found" >>,
                  d.rows_affected)
        /\ pinned' = [pinned EXCEPT ![tag] = NoPin]
        /\ UNCHANGED <<disk, now, tz, visited, names, procs, other>>

\* pathranger untag <tag>: remove_tag
Untag(tag) ==
    LET d == DeleteTag(tags, tag)
    IN  /\ tags' = d.table
        /\ Finish("untag", 0, "none",
                  << IF d.rows_affected > 0 THEN "removed" ELSE "not found" >>,
                  d.rows_affected)
        /\ pinned' = [pinned EXCEPT ![tag] = NoPin]
        /\ UNCHANGED <<directories, disk, now, tz, visited, names, procs, other>>

\* pathranger top --count <n>
Top(count) ==
    /\ Finish("top", 0, "none", list_top_directories(directories, count, tz), count)
    /\ Quiet

\* pathranger recent --count <n>
Recent(count) ==
    /\ Finish("recent", 0, "none", list_recent_directories(directories, count, tz), count)
    /\ Quiet

\* pathranger tags
Tags ==
    /\ Finish("tags", 0, "none", list_tags(tags), 0)
    /\ Quiet

(* ----------------------------------------------------------------- search *)
DisplayCap == 10                           \* .take(10)

\* SELECT path FROM directories: the statement reads the path column alone,
\* and the store answers it from the index of the UNIQUE constraint on path,
\* which it walks in BINARY order of the paths.
SelectPaths_ByRowid(t) == [k \in DOMAIN t |-> t[k].path]

SelectPaths(t) ==
    LET Rank(i) == Cardinality({j \in DOMAIN t : StrLess(t[j].path, t[i].path)}) + 1
    IN  [k \in DOMAIN t |-> t[CHOOSE i \in DOMAIN t : Rank(i) = k].path]

\* The leftmost positions at which the characters of pattern occur in choice
\* in order, from position from on; a 0 stands for a character not found.
RECURSIVE Embedding(_, _, _)
Embedding(choice, pattern, from) ==
    IF pattern = <<>> THEN <<>>
    ELSE LET hits == {i \in from..Len(choice) : choice[i] = Head(pattern)}
         IN  IF hits = {} THEN <<0>>
             ELSE LET i == CHOOSE h \in hits : \A g \in hits : h <= g
                  IN  <<i>> \o Embedding(choice, Tail(pattern), i + 1)

\* SkimMatcherV2::default().fuzzy_match(choice, pattern): no score unless the
\* characters of pattern occur in choice in order.  The score of the crate
\* fuzzy-matcher is stood for by its shape: a reward per matched character,
\* a bonus at the start or after a separator, a penalty per skipped character.
fuzzy_match(choice, pattern) ==
    LET pos == Embedding(choice, pattern, 1)
        Gain(k) == 16
                   + (IF pos[k] = 1 THEN 8 ELSE IF choice[pos[k] - 1] = "/" THEN 7 ELSE 0)
                   - (pos[k] - (IF k = 1 THEN 1 ELSE pos[k - 1] + 1))
        RECURSIVE Sum(_)
        Sum(k) == IF k = 0 THEN 0 ELSE Gain(k) + Sum(k - 1)
    IN  IF \E k \in DOMAIN pos : pos[k] = 0
        THEN [some |-> FALSE, score |-> 0]
        ELSE [some |-> TRUE, score |-> Sum(Len(pos))]

\* matches.sort_by(|a, b| b.1.cmp(&a.1)): a stable sort, by score descending.
SortByScore(s) ==
    LET Before(i, j) == s[i].score > s[j].score \/ (s[i].score = s[j].score /\ i < j)
        Rank(i) == Cardinality({j \in DOMAIN s : Before(j, i)}) + 1
    IN  [k \in DOMAIN s |-> s[CHOOSE i \in DOMAIN s : Rank(i) = k]]

\* The vector matches after the loop: the scored paths in the order of the scan.
Matches(t, query) ==
    LET paths == SelectPaths(t)
        scored == [k \in DOMAIN paths |->
                      [path |-> paths[k], score |-> fuzzy_match(paths[k], query).score]]
    IN  SelectSeq(scored, LAMBDA m : fuzzy_match(m.path, query).some)

\* search_directories without the call of sort_by.
search_directories_NoSort(t, query) == Limit(Matches(t, query), DisplayCap)

\* search_directories: the lines printed below the header, at most 10.
search_directories(t, query) == Limit(SortByScore(Matches(t, query)), DisplayCap)

\* pathranger search <query>: the lines of the listing; none stands for the
\* message that nothing matched.
Search(query) ==
    /\ Finish("search", 0, "none", search_directories(directories, query), 0)
    /\ Quiet

(* ------------------------------------------------------ shell integration *)
Shells == {"bash", "zsh", "fish"}          \* pathranger init --shell <shell>

\* cd "$dir" inside __pathranger_cd.  zsh and fish call the builtin.  bash
\* calls cd, which the generated code has redefined as a function that
\* calls __pathranger_cd again: the call never returns and the shell ends
\* in a stack overflow.
CdReturns(shell) == shell # "bash"

\* $PWD after cd "$dir": the absolute path of the directory.
Pwd(dir, cwd) == DirString(Resolve(dir, cwd))

\* pr goto <tag> of the generated shell code: dir=$(pathranger goto "$2"),
\* then __pathranger_cd "$dir", which after [ -d "$dir" ] and the cd runs
\* pathranger record "$PWD".
PrGoto(shell, tag, cwd) ==
    LET q == TagQuery(tags, tag)
        dir == IF q.found THEN q.path ELSE <<>>
        first == IF q.found THEN record_visit(directories, disk, cwd, dir, Stamp)
                 ELSE [table |-> directories, key |-> <<>>, recorded |-> FALSE,
                       err |-> "none", diag |-> "notfound"]
        enters == dir # <<>> /\ is_dir(dir, cwd, disk)
        second == IF enters /\ CdReturns(shell)
                  THEN record_visit(first.table, disk, Resolve(dir, cwd), Pwd(dir, cwd), Stamp)
                  ELSE [table |-> first.table, key |-> <<>>, recorded |-> FALSE,
                        err |-> "none", diag |-> first.diag]
        Note(v, r) == IF r.recorded
                      THEN [v EXCEPT ![r.key] = [n |-> @.n + 1, last |-> Stamp]]
                      ELSE v
        Name(m, r) == IF r.recorded
                      THEN [m EXCEPT ![Resolve(dir, cwd)] = @ \cup {r.key}]
                      ELSE m
    IN  /\ TotalVisits(second.table) <= MaxVisits
        /\ directories' = second.table
        /\ visited' = Note(Note(visited, first), second)
        /\ names' = Name(Name(names, first), second)
        /\ Finish("pr goto",
                  IF enters /\ ~CdReturns(shell) THEN 139 ELSE 0,
                  IF enters /\ ~CdReturns(shell) THEN "stack overflow" ELSE second.diag,
                  <<>>, 0)
        /\ UNCHANGED <<tags, disk, now, tz, pinned, procs, other>>

(* ----------------------------------------------------------- environment *)
\* The wall clock advances between two commands, or does not.
Tick ==
    /\ now < MaxTime
    /\ now' = now + 1
    /\ UNCHANGED <<directories, tags, disk, tz, out, visited, names, pinned, procs, other>>

\* The local UTC offset changes (travel, daylight saving).
SetZone ==
    /\ \E z \in Offsets \ {tz} : tz' = z
    /\ UNCHANGED <<directories, tags, disk, now, out, visited, names, pinned, procs, other>>

\* A directory is removed from the disk, or created again.
RmDir ==
    /\ \E d \in Removable \cap disk : disk' = disk \ {d}
    /\ UNCHANGED <<directories, tags, now, tz, out, visited, names, pinned, procs, other>>

MkDir ==
    /\ \E d \in Removable \ disk : disk' = disk \cup {d}
    /\ UNCHANGED <<directories, tags, now, tz, out, visited, names, pinned, procs, other>>

(* -------------------------------------------------------- specifications *)
MarkArgs == {NoPath, SomePath(PathGone)}

\* Every command, one invocation at a time.
Next ==
    \/ \E path \in {PathTilde, PathAbs, PathSlash, PathGone} : Record(path, DirHome)
    \/ Add(DirHome)
    \/ \E arg \in MarkArgs, cwd \in WorkDirs : Mark(TagW, arg, cwd)
    \/ Goto(TagW, DirHome)
    \/ Untag(TagW)
    \/ Top(MaxCount)
    \/ Recent(MaxCount)
    \/ Tags
    \/ Tick
    \/ RmDir
    \/ MkDir

Spec == Init /\ [][Next]_vars

\* The visit store alone: record, add and the two listings.
NextVisits ==
    \/ \E path \in {PathTilde, PathB, PathGone} : Record(path, DirHome)
    \/ \E cwd \in WorkDirs : Record(PathRel, cwd)
    \/ \E cwd \in WorkDirs : Add(cwd)
    \/ \E count \in Counts : Top(count)
    \/ \E count \in Counts : Recent(count)
    \/ Tick
    \/ RmDir
    \/ MkDir

SpecVisits == Init /\ [][NextVisits]_vars

\* The tag registry: mark, goto, untag and tags.
NextTags ==
    \/ \E tag \in TagNames, arg \in MarkArgs, cwd \in WorkDirs : Mark(tag, arg, cwd)
    \/ \E tag \in TagNames, cwd \in WorkDirs : Goto(tag, cwd)
    \/ \E tag \in TagNames : Untag(tag)
    \/ Tags
    \/ Tick
    \/ RmDir
    \/ MkDir

SpecTags == Init /\ [][NextTags]_vars

(* ------------------------------------------------ concurrent invocations *)
\* Each invocation is a process with its own connection in autocommit mode:
\* a statement is one transaction, and the store runs the statements of
\* different processes one at a time in any order.  A step below is what a
\* process does up to and including its next statement.

Local == UNCHANGED <<tags, disk, now, tz, out, pinned, other>>

\* Visits reported so far, and invocations of mark that have yet to report theirs.
Reported ==
    LET RECURSIVE Sum(_)
        Sum(ks) == IF ks = {} THEN 0
                   ELSE LET k == CHOOSE k \in ks : TRUE IN visited[k].n + Sum(ks \ {k})
    IN  Sum(StoredKeys)
Pending == Cardinality({p \in Procs : procs[p].pc \in {"exists", "write", "visit"}})

\* record_visit, lines 125-134: expansion, the directory check, the clock.
EnterVisit(p, me, path) ==
    IF ~is_dir(tilde(path), me.cwd, disk)
    THEN /\ procs' = [procs EXCEPT ![p] = [me EXCEPT !.pc = "done", !.path = tilde(path),
                                                     !.err = "nodir"]]
         /\ UNCHANGED <<visited, names>>
    ELSE /\ procs' = [procs EXCEPT ![p] = [me EXCEPT !.pc = "update", !.path = tilde(path),
                                                     !.ts = Stamp]]
         /\ NoteVisit(path, me.cwd, Stamp)

\* pathranger record <path> starts.
StartRecord(p, path, cwd) ==
    /\ procs[p].pc = "idle"
    /\ Reported + Pending < MaxVisits
    /\ EnterVisit(p, [Idle EXCEPT !.cmd = "record", !.cwd = cwd], path)
    /\ UNCHANGED directories
    /\ Local

\* record_visit, lines 135-141: the UPDATE and the test of rows_affected.
StepUpdate(p) ==
    LET me == procs[p]
        upd == UpdateVisit(directories, me.path, me.ts)
    IN  /\ me.pc = "update"
        /\ directories' = upd.table
        /\ procs' = [procs EXCEPT ![p].pc = IF upd.rows_affected = 0 THEN "insert" ELSE "done"]
        /\ UNCHANGED <<visited, names>>
        /\ Local

\* record_visit, lines 142-148: the INSERT; its error ends the command.
StepInsert(p) ==
    LET me == procs[p]
        ins == InsertVisit(directories, me.path, me.ts)
    IN  /\ me.pc = "insert"
        /\ directories' = ins.table
        /\ procs' = [procs EXCEPT ![p] = [me EXCEPT !.pc = "done", !.err = ins.err,
                                           !.exit = IF ins.err = "none" THEN 0 ELSE 1]]
        /\ UNCHANGED <<visited, names>>
        /\ Local

\* pathranger mark <tag> starts: mark_directory, lines 152-168.
StartMark(p, tag, arg, cwd) ==
    LET path == IF arg.some THEN tilde(arg.val) ELSE DirString(cwd)
        me == [Idle EXCEPT !.cmd = "mark", !.tag = tag, !.cwd = cwd, !.path = path]
    IN  /\ procs[p].pc = "idle"
        /\ Reported + Pending < MaxVisits
        /\ procs' = [procs EXCEPT ![p] =
              IF ~arg.some /\ cwd \notin disk
              THEN [me EXCEPT !.pc = "done", !.exit = 1, !.err = "nocwd"]
              ELSE IF ~is_dir(path, cwd, disk)
              THEN [me EXCEPT !.pc = "done", !.exit = 1, !.err = "nodir"]
              ELSE [me EXCEPT !.pc = "exists"]]
        /\ UNCHANGED <<directories, visited, names>>
        /\ Local

\* mark_directory, lines 171-174: the SELECT, then the clock.
StepExists(p) ==
    /\ procs[p].pc = "exists"
    /\ procs' = [procs EXCEPT ![p] = [@ EXCEPT !.pc = "write", !.ts = Stamp,
                                               !.exists = TagExists(tags, procs[p].tag)]]
    /\ UNCHANGED <<directories, tags, disk, now, tz, out, visited, names, pinned, other>>

\* mark_directory, lines 175-189: the UPDATE or the INSERT; an error ends the command.
StepWrite(p) ==
    LET me == procs[p]
        ins == InsertTag(tags, me.tag, me.path, me.ts)
    IN  /\ me.pc = "write"
        /\ IF me.exists
           THEN /\ tags' = UpdateTag(tags, me.tag, me.path, me.ts)
                /\ procs' = [procs EXCEPT ![p].pc = "visit"]
           ELSE /\ tags' = ins.table
                /\ procs' = [procs EXCEPT ![p] =
                      IF ins.err = "none" THEN [me EXCEPT !.pc = "visit"]
                      ELSE [me EXCEPT !.pc = "done", !.exit = 1, !.err = ins.err]]
        /\ UNCHANGED <<directories, disk, now, tz, out, visited, names, pinned, other>>

\* mark_directory, line 192: the call of record_visit.
StepVisit(p) ==
    /\ procs[p].pc = "visit"
    /\ EnterVisit(p, procs[p], procs[p].path)
    /\ UNCHANGED directories
    /\ Local

\* All invocations have ended; the next ones can start.
Reap ==
    /\ \A p \in Procs : procs[p].pc = "done"
    /\ procs' = [p \in Procs |-> Idle]
    /\ UNCHANGED <<directories, tags, disk, now, tz, out, visited, names, pinned, other>>

\* Concurrent invocations of record.
NextRace ==
    \/ \E p \in Procs, path \in {PathTilde, PathB, PathGone} : StartRecord(p, path, DirHome)
    \/ \E p \in Procs : StepUpdate(p)
    \/ \E p \in Procs : StepInsert(p)
    \/ Reap
    \/ Tick

SpecRace == Init /\ [][NextRace]_vars

\* Concurrent invocations of mark.
NextMarkRace ==
    \/ \E p \in Procs, tag \in TagNames, cwd \in WorkDirs : StartMark(p, tag, NoPath, cwd)
    \/ \E p \in Procs : StepExists(p)
    \/ \E p \in Procs : StepWrite(p)
    \/ \E p \in Procs : StepVisit(p)
    \/ \E p \in Procs : StepUpdate(p)
    \/ \E p \in Procs : StepInsert(p)
    \/ Reap
    \/ Tick

SpecMarkRace == Init /\ [][NextMarkRace]_vars

(* -------------------------------------------------------------- two stores *)
\* A second store, filled by record commands of its own: its clock, like
\* the first one's, advances between two commands or does not.
Latest(t) ==
    LET RECURSIVE Max(_)
        Max(i) == IF i = 0 THEN 0
                  ELSE LET u == parse_from_rfc3339(t[i].last_visited).utc
                           m == Max(i - 1)
                       IN  IF u > m THEN u ELSE m
    IN  Max(Len(t))

RecordOther(path, cwd) ==
    \E clock \in Latest(other)..MaxTime :
        LET r == record_visit(other, disk, cwd, path, to_rfc3339(LocalNow(clock, tz)))
        IN  /\ r.recorded
            /\ TotalVisits(other) < MaxVisits
            /\ other' = r.table
            /\ UNCHANGED <<directories, tags, disk, now, tz, out, visited, names, pinned, procs>>

NextPair ==
    \/ \E path \in {PathTilde, PathB} : Record(path, DirHome)
    \/ \E path \in {PathTilde, PathB} : RecordOther(path, DirHome)
    \/ Tick

SpecPair == Init /\ [][NextPair]_vars

(* ------------------------------------------------------ changing offsets *)
\* Visits and listings on a machine whose local UTC offset changes between
\* two commands.
NextZones ==
    \/ \E path \in {PathTilde, PathB} : Record(path, DirHome)
    \/ \E count \in Counts : Recent(count)
    \/ Tick
    \/ SetZone

SpecZones == Init /\ [][NextZones]_vars

(* -------------------------------------------------- visits and tags together *)
\* record, add, mark and goto on directories that come and go.
NextFrame ==
    \/ \E path \in {PathB, PathGone} : Record(path, DirHome)
    \/ \E cwd \in WorkDirs : Add(cwd)
    \/ \E arg \in MarkArgs, cwd \in WorkDirs : Mark(TagW, arg, cwd)
    \/ Goto(TagW, DirHome)
    \/ Tick
    \/ RmDir
    \/ MkDir

SpecFrame == Init /\ [][NextFrame]_vars

(* ------------------------------------------------------- search on a store *)
MaxRows == 12       \* most rows of the table directories when search runs

\* Paths /X/Y/Z over three names, numbered from 0.
Letters == <<"h", "a", "b">>
PathNo(k) ==
    <<"/", Letters[((k \div 9) % 3) + 1], "/", Letters[((k \div 3) % 3) + 1],
      "/", Letters[(k % 3) + 1]>>
Queries == {<<"h">>, <<"b">>, <<"x">>}

\* The table after n directories out of MaxRows were visited once each, the
\* first visit going to directory number r and the next ones following round.
VisitedOnce(r, n) ==
    [k \in 1..n |-> [path |-> PathNo((r + k - 1) % MaxRows), visit_count |-> 1,
                     last_visited |-> to_rfc3339(LocalNow(0, 0))]]

InitSearch ==
    /\ directories \in {VisitedOnce(r, n) : r \in 0..(MaxRows - 1), n \in 0..MaxRows}
    /\ tags = <<>>
    /\ disk = AllDirs
    /\ now = 0
    /\ tz = 0
    /\ out = NoOut
    /\ visited = [k \in StoredKeys |-> [n |-> 0, last |-> NoTime]]
    /\ names = [d \in AllDirs |-> {}]
    /\ pinned = [t \in TagNames |-> NoPin]
    /\ procs = [p \in Procs |-> Idle]
    /\ other = <<>>

NextSearch == \E query \in Queries : Search(query)

SpecSearch == InitSearch /\ [][NextSearch]_vars

(* ------------------------------------------------------ every command once *)
\* All commands of main, each with one argument.
NextAll ==
    \/ Record(PathB, DirHome)
    \/ Add(DirHome)
    \/ Mark(TagW, NoPath, DirHome)
    \/ Goto(TagW, DirHome)
    \/ Untag(TagW)
    \/ Top(MaxCount)
    \/ Recent(MaxCount)
    \/ Search(<<"h">>)
    \/ Tags
    \/ Tick
    \/ RmDir
    \/ MkDir

SpecAll == Init /\ [][NextAll]_vars

(* ----------------------------------------------------- through the wrapper *)
\* mark from a shell, then pr goto from a shell with the generated code.
NextShell ==
    \/ \E cwd \in WorkDirs : Mark(TagW, NoPath, cwd)
    \/ \E shell \in Shells, cwd \in WorkDirs : PrGoto(shell, TagW, cwd)
    \/ Untag(TagW)
    \/ Tick
    \/ RmDir
    \/ MkDir

SpecShell == Init /\ [][NextShell]_vars

(* ================================================================ claims *)
Min(a, b) == IF a < b THEN a ELSE b
RowOf(t, path) == t[CHOOSE i \in RowsOf(t, path) : TRUE]

\* C1: after any sequence of record/add commands on existing directories,
\* every visited path has exactly one row; its visit_count is the number of
\* visits reported for the path and its last_visited the time of the last of
\* them; a path never visited has no row.
C1_OneRowPerVisitedPath ==
    \A k \in StoredKeys :
        IF visited[k].n = 0 THEN RowsOf(directories, k) = {}
        ELSE /\ Cardinality(RowsOf(directories, k)) = 1
             /\ RowOf(directories, k).visit_count = visited[k].n
             /\ RowOf(directories, k).last_visited = visited[k].last

\* A path visited twice, the second time at a later instant than the first.
C1_Witness ==
    /\ out.cmd = "record"
    /\ \E k \in StoredKeys :
          /\ visited[k].n = 2
          /\ RowsOf(directories, k) # {}
          /\ visited[k].last.local = 1
    /\ Len(directories) = 2

\* C3: after any sequence of mark and untag commands there is at most one row
\* per tag name; a name has a row exactly when it was marked since its last
\* untag, and the row holds the path and the time of the most recent such mark.
C3_OneRowPerTagName ==
    \A name \in TagNames :
        IF ~pinned[name].set THEN TagRows(tags, name) = {}
        ELSE /\ Cardinality(TagRows(tags, name)) = 1
             /\ \A i \in TagRows(tags, name) :
                   /\ tags[i].path = pinned[name].path
                   /\ tags[i].created_at = pinned[name].at

\* A tag was pointed at another directory: one row holds the new path.
C3_Witness ==
    /\ out.cmd = "mark" /\ out.exit = 0 /\ out.stdout = <<"Updated">>
    /\ Len(directories) = 2
    /\ \E i \in DOMAIN tags :
          /\ tags[i].path = directories[2].path
          /\ tags[i].created_at = directories[2].last_visited
          /\ tags[i].created_at.local = 1
    /\ Len(tags) = 2

\* The number of visits reported for a directory under any of its names.
VisitsTo(d) ==
    LET RECURSIVE Sum(_)
        Sum(ks) == IF ks = {} THEN 0
                   ELSE LET k == CHOOSE k \in ks : TRUE IN visited[k].n + Sum(ks \ {k})
    IN  Sum(names[d])

\* C5: equivalent representations of one directory are stored under one key:
\* a visited directory has one row, and its visit_count counts the visits made
\* through all representations.
C5_OneRowPerDirectory ==
    \A d \in AllDirs :
        names[d] # {} =>
            /\ Cardinality(names[d]) = 1
            /\ \A k \in names[d] :
                  /\ Cardinality(RowsOf(directories, k)) = 1
                  /\ RowOf(directories, k).visit_count = VisitsTo(d)

\* The target of a mark does not exist as a directory.
TargetMissing(arg, cwd) ==
    IF arg.some THEN Resolve(tilde(arg.val), cwd) \notin disk ELSE cwd \notin disk

\* C6: mark on a target that is not an existing directory exits non-zero with
\* a diagnostic and leaves both tables as they were.
C6_MarkMissingTarget ==
    [][\A tag \in TagNames, arg \in MarkArgs, cwd \in WorkDirs :
          (Mark(tag, arg, cwd) /\ TargetMissing(arg, cwd)) =>
              /\ out'.exit = 1
              /\ out'.err \in {"nodir", "nocwd"}
              /\ tags' = tags
              /\ directories' = directories]_vars

\* A mark on a missing directory failed while the tag pointed elsewhere.
C6_Witness ==
    /\ out.cmd = "mark" /\ out.exit = 1 /\ out.err = "nodir"
    /\ \A name \in TagNames : TagExists(tags, name)
    /\ directories # <<>>

\* C7: goto on a name without a row exits non-zero with the not-found
\* diagnostic, prints no path and leaves both tables as they were.
C7_GotoUnknownTag ==
    [][\A tag \in TagNames, cwd \in WorkDirs :
          (Goto(tag, cwd) /\ TagRows(tags, tag) = {}) =>
              /\ out'.exit = 1
              /\ out'.err = "notfound"
              /\ out'.stdout = <<>>
              /\ tags' = tags
              /\ directories' = directories]_vars

\* goto failed on a name that was removed while another tag exists.
C7_Witness ==
    /\ out.cmd = "goto" /\ out.exit = 1 /\ out.err = "notfound"
    /\ tags # <<>>
    /\ Len(directories) = 2

\* The rows of the tag table that do not carry the given name, in order.
OtherTags(t, name) == SelectSeq(t, LAMBDA r : r.name # name)

\* C8: untag exits zero, leaves no row of the name, reports 1 row when there
\* was one and 0 rows (changing nothing) when there was none, and leaves every
\* other tag row and the table directories as they were.
C8_UntagIdempotent ==
    [][\A tag \in TagNames :
          Untag(tag) =>
              /\ out'.exit = 0
              /\ TagRows(tags', tag) = {}
              /\ out'.rows = (IF TagRows(tags, tag) # {} THEN 1 ELSE 0)
              /\ out'.stdout = << IF TagRows(tags, tag) # {} THEN "removed" ELSE "not found" >>
              /\ (TagRows(tags, tag) = {} => tags' = tags)
              /\ tags' = OtherTags(tags, tag)
              /\ directories' = directories]_vars

\* untag found no row of the name to delete, and the row of the other tag
\* is still there.
C8_Witness ==
    /\ out.cmd = "untag" /\ out.rows = 0 /\ out.stdout = <<"not found">>
    /\ Len(tags) = 1
    /\ Len(directories) = 2

\* C9: top(n) lists min(n, number of rows) distinct rows of the table in
\* non-increasing order of visit_count, and no row left out has a higher
\* visit_count than a listed one.
C9_TopByVisitCount ==
    out.cmd = "top" =>
        LET l == out.stdout
            listed == {l[i].path : i \in DOMAIN l}
        IN  /\ Len(l) = Min(out.rows, Len(directories))
            /\ \A i, j \in DOMAIN l : i < j =>
                  l[i].visit_count >= l[j].visit_count /\ l[i].path # l[j].path
            /\ \A i \in DOMAIN l : \E r \in DOMAIN directories :
                  directories[r].path = l[i].path
                  /\ directories[r].visit_count = l[i].visit_count
            /\ \A r \in DOMAIN directories : directories[r].path \notin listed =>
                  \A i \in DOMAIN l : l[i].visit_count >= directories[r].visit_count

\* top(1) lists the path recorded second, which has the higher count.
C9_Witness ==
    /\ out.cmd = "top" /\ out.rows = 1
    /\ Len(directories) = 2
    /\ directories[1].visit_count < directories[2].visit_count
    /\ out.stdout[1].path = directories[2].path

\* C2: no concurrent invocation of record ends in an error, and when all
\* have ended every path has one row whose visit_count is the number of
\* visits reported for it.
C2_NoLostVisit ==
    /\ \A p \in Procs : procs[p].cmd = "record" => procs[p].exit = 0
    /\ (\A p \in Procs : procs[p].pc \in {"idle", "done"}) =>
          \A k \in StoredKeys :
              visited[k].n > 0 =>
                  /\ Cardinality(RowsOf(directories, k)) = 1
                  /\ RowOf(directories, k).visit_count = visited[k].n

\* C4: no concurrent invocation of mark on an existing directory ends in an
\* error, and when all have ended each name they marked has one row, which
\* points at the path of one of them.
C4_MarkAtomic ==
    \A p \in Procs :
        (procs[p].cmd = "mark" /\ procs[p].err \notin {"nodir", "nocwd"}) =>
            /\ procs[p].exit = 0
            /\ (\A q \in Procs : procs[q].pc = "done") =>
                  /\ Cardinality(TagRows(tags, procs[p].tag)) = 1
                  /\ \A i \in TagRows(tags, procs[p].tag) :
                        \E q \in Procs :
                            procs[q].tag = procs[p].tag /\ procs[q].path = tags[i].path

\* C10, as claimed: two stores that hold the same set of rows list the same
\* sequence for top(n) and for recent(n).
C10_SameRowsSameListing ==
    Range(directories) = Range(other) =>
        \A n \in Counts :
            /\ list_top_directories(directories, n, tz) = list_top_directories(other, n, tz)
            /\ list_recent_directories(directories, n, tz)
                   = list_recent_directories(other, n, tz)

Pos(t, path) == CHOOSE i \in DOMAIN t : t[i].path = path

\* In a listing of table t, rows that the sort key does not separate stand
\* in the order in which their paths were first recorded.
TiesAsInserted(t, l, column) ==
    \A i, j \in DOMAIN l :
        (i < j /\ t[Pos(t, l[i].path)][column] = t[Pos(t, l[j].path)][column]) =>
            Pos(t, l[i].path) < Pos(t, l[j].path)

\* C10, amended: the tie-break of top(n) and recent(n) is the order of
\* insertion: rows with equal visit_count (equal last_visited) are listed in
\* the order in which their paths were first recorded.
C10_TiesInInsertionOrder ==
    \A t \in {directories, other}, n \in Counts :
        /\ TiesAsInserted(t, list_top_directories(t, n, tz), "visit_count")
        /\ TiesAsInserted(t, list_recent_directories(t, n, tz), "last_visited")

\* Two stores with the same two rows, recorded in opposite orders, list them
\* in opposite orders.
C10_Witness ==
    /\ Range(directories) = Range(other)
    /\ Len(directories) = 2 /\ Len(other) = 2
    /\ directories[1] = other[2]
    /\ directories[1].visit_count = directories[2].visit_count
    /\ list_top_directories(directories, 2, tz)[1].path = directories[1].path
    /\ list_top_directories(other, 2, tz)[1].path = other[1].path
    /\ list_recent_directories(other, 2, tz)[1].path = other[1].path

\* C11: recent --count n lists min(n, number of rows) rows, and a row whose
\* last visit happened at a later instant is never listed below a row whose
\* last visit happened at an earlier instant, also when the visits were
\* recorded under different local UTC offsets.
C11_RecentByInstant ==
    out.cmd = "recent" =>
        /\ Len(out.stdout) = Min(out.rows, Len(directories))
        /\ \A i, j \in DOMAIN out.stdout :
              i < j => out.stdout[i].last_visited >= out.stdout[j].last_visited

\* visit_count of the row of a path, 0 when the path has no row.
CountOf(t, path) == IF RowsOf(t, path) = {} THEN 0 ELSE RowOf(t, path).visit_count

\* C12: a successful mark leaves one row for the marked path with visit_count
\* one higher than before (1 when there was none), whether the tag was created
\* or pointed at another directory; record and add leave the table tags as it was.
C12_MarkAlsoVisits ==
    [][/\ \A arg \in MarkArgs, cwd \in WorkDirs :
             (Mark(TagW, arg, cwd) /\ out'.exit = 0) =>
                 LET path == IF arg.some THEN tilde(arg.val) ELSE DirString(cwd)
                 IN  /\ Cardinality(RowsOf(directories', path)) = 1
                     /\ CountOf(directories', path) = CountOf(directories, path) + 1
                     /\ \A k \in StoredKeys \ {path} :
                           CountOf(directories', k) = CountOf(directories, k)
       /\ \A path \in {PathB, PathGone} : Record(path, DirHome) => tags' = tags
       /\ \A cwd \in WorkDirs : Add(cwd) => tags' = tags]_vars

\* The tag was pointed at a directory visited before: its row counts that
\* visit and the one of the mark.
C12_Witness ==
    /\ out.cmd = "mark" /\ out.exit = 0 /\ out.stdout = <<"Updated">>
    /\ Len(tags) = 1
    /\ CountOf(directories, tags[1].path) = 2
    /\ Len(directories) = 2

\* C13: record on a path that is no directory on disk exits zero, inserts no
\* row and leaves every existing row, the one of that path included, with
\* its visit_count and last_visited.
C13_RecordMissingIsNoop ==
    [][\A path \in {PathB, PathGone} :
          (Record(path, DirHome) /\ Resolve(tilde(path), DirHome) \notin disk) =>
              /\ out'.exit = 0
              /\ out'.stdout = <<>>
              /\ directories' = directories
              /\ tags' = tags]_vars

\* record was run on a directory that has a row from an earlier visit and
\* is no longer on disk.
C13_Witness ==
    /\ out.cmd = "record" /\ out.exit = 0 /\ out.err = "nodir"
    /\ DirB \notin disk
    /\ CountOf(directories, PathB) = 1
    /\ visited[PathB].last.local < now

\* The characters of pattern occur in choice in order.
RECURSIVE IsSubsequence(_, _)
IsSubsequence(pattern, choice) ==
    IF pattern = <<>> THEN TRUE
    ELSE IF choice = <<>> THEN FALSE
    ELSE IF Head(pattern) = Head(choice) THEN IsSubsequence(Tail(pattern), Tail(choice))
    ELSE IsSubsequence(pattern, Tail(choice))

\* The stored paths a query matches, and those of them a listing leaves out.
Matching(t, query) == {t[i].path : i \in {j \in DOMAIN t : IsSubsequence(query, t[j].path)}}
Listed(l) == {l[i].path : i \in DOMAIN l}

\* C14: search exits zero; when no stored path matches, it lists nothing;
\* otherwise it lists min(10, number of matching paths)
\* distinct matching stored paths, each with the matcher's score, in
\* non-increasing order of score, and no matching path left out has a higher
\* score than a listed one.
C14_SearchByScore ==
    [][\A query \in Queries :
          Search(query) =>
              LET all == Matching(directories, query)
                  l == out'.stdout
              IN  /\ out'.exit = 0
                  /\ all = {} => l = <<>>
                  /\ Len(l) = Min(DisplayCap, Cardinality(all))
                  /\ Listed(l) \subseteq all
                  /\ \A i, j \in DOMAIN l : i < j =>
                        l[i].path # l[j].path /\ l[i].score >= l[j].score
                  /\ \A i \in DOMAIN l : l[i].score = fuzzy_match(l[i].path, query).score
                  /\ \A p \in all \ Listed(l) : \A i \in DOMAIN l :
                        l[i].score >= fuzzy_match(p, query).score]_vars

\* A search listed ten of more than ten matching paths, with different
\* scores among the listed ones and the lowest one last.
C14_Witness ==
    /\ out.cmd = "search" /\ out.exit = 0
    /\ Len(out.stdout) = DisplayCap
    /\ Len(directories) > DisplayCap
    /\ out.stdout[1].score > out.stdout[DisplayCap].score
    /\ out.stdout[1].path # SelectPaths(directories)[1]

\* C15: listed paths of equal score are in the order of their path strings,
\* whatever the order of the rows in the table, and a matching path left out
\* by the cap follows, in that order, every listed path of the same score.
C15_TiesByPath ==
    [][\A query \in Queries :
          Search(query) =>
              LET all == Matching(directories, query)
                  l == out'.stdout
              IN  /\ \A i, j \in DOMAIN l :
                        (i < j /\ l[i].score = l[j].score) => StrLess(l[i].path, l[j].path)
                  /\ \A p \in all \ Listed(l) : \A i \in DOMAIN l :
                        l[i].score = fuzzy_match(p, query).score => StrLess(l[i].path, p)]_vars

\* A search on a table whose rows are not in path order listed ten paths and
\* left out one with the score of the last listed one; two listed paths of
\* equal score have their rows in the opposite order in the table.
C15_Witness ==
    /\ out.cmd = "search" /\ Len(out.stdout) = DisplayCap
    /\ Len(directories) > DisplayCap
    /\ \E a, b \in DOMAIN out.stdout : \E i, j \in DOMAIN directories :
          /\ a < b /\ out.stdout[a].score = out.stdout[b].score
          /\ i < j
          /\ directories[i].path = out.stdout[b].path
          /\ directories[j].path = out.stdout[a].path
    /\ \E r \in DOMAIN directories :
          /\ directories[r].path \notin Listed(out.stdout)
          /\ \E q \in Queries :
                /\ IsSubsequence(q, directories[r].path)
                /\ fuzzy_match(directories[r].path, q).score = out.stdout[DisplayCap].score
                /\ fuzzy_match(out.stdout[DisplayCap].path, q).score = out.stdout[DisplayCap].score

\* The path in the row of a tag name.
PathOfTag(t, name) == t[CHOOSE i \in TagRows(t, name) : TRUE].path

\* C16 as stated: goto on a name that has a row prints the path of the row,
\* exits zero, leaves the table tags as it was and raises the visit_count of
\* the path by one (to 1 when it had no row).
C16_GotoRecordsVisit ==
    [][(Goto(TagW, DirHome) /\ TagRows(tags, TagW) # {}) =>
          LET path == PathOfTag(tags, TagW)
          IN  /\ out'.stdout = <<path>>
              /\ out'.exit = 0
              /\ tags' = tags
              /\ CountOf(directories', path) = CountOf(directories, path) + 1]_vars

\* C16: goto on a name that has a row prints the path of the row, exits zero
\* and leaves the table tags as it was; when the path is a directory on disk
\* its visit_count rises by one (to 1 when it had no row) and no other row
\* changes its count, and when it is not, the table directories stays as it was.
C16_GotoVisitsExisting ==
    [][(Goto(TagW, DirHome) /\ TagRows(tags, TagW) # {}) =>
          LET path == PathOfTag(tags, TagW)
          IN  /\ out'.stdout = <<path>>
              /\ out'.exit = 0
              /\ tags' = tags
              /\ IF Resolve(path, DirHome) \in disk
                 THEN /\ CountOf(directories', path) = CountOf(directories, path) + 1
                      /\ \A k \in StoredKeys \ {path} :
                            CountOf(directories', k) = CountOf(directories, k)
                 ELSE directories' = directories]_vars

\* goto printed the path of a tag whose directory was removed after the
\* mark: the row of the path still counts the visit of the mark alone.
C16_Witness ==
    /\ out.cmd = "goto" /\ out.exit = 0 /\ out.err = "nodir"
    /\ out.stdout = <<PathB>>
    /\ DirB \notin disk
    /\ CountOf(directories, PathB) = 1

\* C17: whatever command runs, a path that has a row keeps one, with a
\* visit_count no lower than before, and no row has a visit_count below 1.
C17_HistoryMonotone ==
    [][/\ \A i \in DOMAIN directories :
             /\ RowsOf(directories', directories[i].path) # {}
             /\ CountOf(directories', directories[i].path) >= directories[i].visit_count
       /\ \A i \in DOMAIN directories' : directories'[i].visit_count >= 1]_vars

\* A tag was removed after its directory was visited twice and another
\* directory once: both rows are there with their counts.
C17_Witness ==
    /\ out.cmd = "untag" /\ out.rows = 1
    /\ Len(directories) = 2
    /\ \E i \in DOMAIN directories : directories[i].visit_count = 2
    /\ DirB \notin disk
    /\ RowsOf(directories, PathB) # {}

\* C18: setup_database leaves a store whose tables exist as it is, and top,
\* recent, search and tags leave the tables directories and tags as they were.
C18_SetupIdempotent ==
    [][/\ setup_database(Store) = Store
       /\ (Top(MaxCount) \/ Recent(MaxCount) \/ Search(<<"h">>) \/ Tags) =>
             /\ directories' = directories
             /\ tags' = tags]_vars

\* search ran on a store that holds a tag and two visited directories.
C18_Witness ==
    /\ out.cmd = "search" /\ out.stdout # <<>>
    /\ Len(tags) = 1
    /\ Len(directories) = 2

\* C19: pr goto on a tag whose directory is on disk runs to its end and
\* raises the visit_count of that directory's row by exactly 1.
C19_OneVisitPerNavigation ==
    [][\A shell \in Shells, cwd \in WorkDirs :
          (/\ PrGoto(shell, TagW, cwd)
           /\ TagRows(tags, TagW) # {}
           /\ Resolve(PathOfTag(tags, TagW), cwd) \in disk) =>
              /\ out'.exit = 0
              /\ CountOf(directories', PathOfTag(tags, TagW))
                    = CountOf(directories, PathOfTag(tags, TagW)) + 1]_vars

====
